---- MODULE Spec2Model ----
(***************************************************************************)
(* Avatar models of app/avatar/models.py: BaseAvatar, CustomAvatar and     *)
(* SocialAvatar.  The store is the table behind BaseAvatar.objects; every  *)
(* request (a caller of one of the model methods) is a process with its    *)
(* own in-memory avatar object.  The image libraries, the hash function,   *)
(* the file storage and the ORM are external: their results are inputs     *)
(* chosen from small sets, failures included.                              *)
(***************************************************************************)
EXTENDS Naturals, Sequences, FiniteSets, TLC

VARIABLES store, call

vars == <<store, call>>

\* ------------------------------------------------------------- bounds
MaxStore == 2
NumProcs == 2

Procs == 1..NumProcs

\* ---------------------------------------------------------- constants
ICON_WIDTH == 215
ICON_HEIGHT == 215

\* ------------------------------------------------------------ profiles
\* A profile is a row of dashboard.Profile; NoProfile stands for None.
NoProfile == [pk |-> 0, handle |-> ""]
Alice == [pk |-> 1, handle |-> "alice"]
Anon == [pk |-> 2, handle |-> ""]
Profiles == {Alice, Anon}
ProfileArgs == Profiles \cup {NoProfile}

\* token_hex(8): a random name, one representative value.
Token == "token"

\* --------------------------------------------------------------- files
\* A FieldFile / ContentFile is its name; NoFile is the unset field (None).
MkFile(name, ext) == [name |-> name, ext |-> ext]
NoFile == MkFile("", "")
\* bool(FieldFile) is bool(self.name).
FileSet(f) == f # NoFile

\* -------------------------------------------------------------- hashes
\* hash is a CharField whose default is the empty string.
NoHash == ""
HashValues == {"aa", "bb"}
Hashes == HashValues \cup {NoHash}

\* ------------------------------------------------------- configurations
\* The JSON configuration is a dict: a sequence of entries with distinct
\* keys in iteration order.  A value is a string (kind "str") or a dict
\* with component_type and svg_asset (kind "dict").
StrEntry(k, s) ==
    [key |-> k, kind |-> "str", str |-> s, component_type |-> "", svg_asset |-> ""]
DictEntry(k, t, a) ==
    [key |-> k, kind |-> "dict", str |-> "", component_type |-> t, svg_asset |-> a]

\* the key list with only the background in it
ColourKeysShort == {"Background"}

\* the keys that never produce a layer
ColourKeys == {"Background", "ClothingColor", "HairColor", "SkinTone"}

CfgEmpty == <<>>
CfgFull ==
    << DictEntry("Ears", "Ears", "0.svg"),
       StrEntry("Background", "25E899"),
       StrEntry("SkinTone", "F8D5C2"),
       DictEntry("Head", "Head", "1.svg"),
       StrEntry("HairColor", "000000"),
       DictEntry("Eyes", "Eyes", "2.svg") >>
CfgColours ==
    << StrEntry("ClothingColor", "CCCCCC"), StrEntry("Background", "FFFFFF") >>
\* a value of a non-colour key that is no dict: v.get raises AttributeError
CfgMalformed ==
    << StrEntry("Background", "FFFFFF"),
       DictEntry("Head", "Head", "1.svg"),
       StrEntry("Mouth", "3.svg") >>
\* a colour key whose value is a dict: still no layer
CfgColourDict ==
    << DictEntry("SkinTone", "Skin", "4.svg"), DictEntry("Mouth", "Mouth", "5.svg") >>
Configs == {CfgEmpty, CfgFull, CfgColours, CfgMalformed, CfgColourDict}
\* the configurations create is called with
CreateConfigs == {CfgFull, CfgMalformed}

\* ------------------------------------------------------------- avatars
\* A model instance (in memory or a row).  id = 0 is an unsaved instance;
\* cls "None" is Python's None.
MkAvatar(cls, id, profile, hash, svg, png, config) ==
    [cls |-> cls, id |-> id, profile |-> profile, hash |-> hash,
     svg |-> svg, png |-> png, config |-> config]
NoAvatar == MkAvatar("None", 0, NoProfile, NoHash, NoFile, NoFile, <<>>)

\* cls(profile=..., ...): a fresh instance with the field defaults
NewAvatar(cls, profile) ==
    MkAvatar(cls, 0, profile, NoHash, NoFile, NoFile, <<>>)

\* the fields the claims call "the avatar's own fields"
Fields(a) == <<a.svg, a.png, a.hash, a.profile>>

\* ---------------------------------------------------------- avatar_url
\* FieldFile.url: the storage URL of a set file; raises ValueError when
\* the field has no file associated with it.
FileUrl(f) ==
    [raised |-> ~FileSet(f),
     value |-> IF FileSet(f) THEN "/media/" \o f.name \o "." \o f.ext ELSE ""]

\* avatar_url testing the svg first
avatar_url_svg_first(self) ==
    IF FileSet(self.svg) THEN FileUrl(self.svg)
    ELSE IF FileSet(self.png) THEN FileUrl(self.png)
    ELSE [raised |-> FALSE, value |-> ""]

\* BaseAvatar.avatar_url
avatar_url(self) ==
    IF FileSet(self.png) THEN FileUrl(self.png)
    ELSE IF FileSet(self.svg) THEN FileUrl(self.svg)
    ELSE [raised |-> FALSE, value |-> ""]

\* -------------------------------------------------------- find_similar
\* QuerySet.first() in place of last()
First(rows) == IF rows = <<>> THEN NoAvatar ELSE rows[1]

\* QuerySet.last(): the row with the greatest primary key, None if empty.
Last(rows) == IF rows = <<>> THEN NoAvatar ELSE rows[Len(rows)]

\* BaseAvatar.objects.filter(profile=..., hash=...): rows in pk order
Filter(st, profile, hash) ==
    SelectSeq(st, LAMBDA r : r.profile = profile /\ r.hash = hash)

\* find_similar filtering on the profile alone
find_similar_profile_only(self, st) ==
    IF self.hash # NoHash
    THEN Last(SelectSeq(st, LAMBDA r : r.profile = self.profile))
    ELSE NoAvatar

\* find_similar filtering on the hash alone
find_similar_any_profile(self, st) ==
    IF self.hash # NoHash
    THEN Last(SelectSeq(st, LAMBDA r : r.hash = self.hash))
    ELSE NoAvatar

\* find_similar without the test of self.hash
find_similar_unguarded(self, st) == Last(Filter(st, self.profile, self.hash))

\* BaseAvatar.find_similar
find_similar(self, st) ==
    IF self.hash # NoHash
    THEN Last(Filter(st, self.profile, self.hash))
    ELSE NoAvatar

\* ------------------------------------------------------- convert_field
\* What the external conversion does: returns a buffer ("ok"), returns an
\* empty result ("none"), raises ("raise"); "raise_name" is a failure of
\* the naming step after a successful conversion.
ConvOutcomes == {"ok", "none", "raise", "raise_name"}
Formats == {"svg", "png"}

\* convert_field without its try/except: a failure leaves the call
convert_field_unguarded(self, source, input_fmt, output_fmt, outcome) ==
    [result |-> IF outcome = "ok"
                THEN MkFile(IF self.profile # NoProfile THEN self.profile.handle
                            ELSE Token, output_fmt)
                ELSE NoFile,
     self |-> self,
     raised |-> outcome \in {"raise", "raise_name"},
     log |-> <<>>,
     converter |-> IF output_fmt = "svg" THEN "convert_wand" ELSE "convert_img"]

\* BaseAvatar.convert_field.  The result is the returned file (NoFile for
\* None), the object after the call, whether an exception left the call,
\* the log lines written and the converter that was called.
convert_field(self, source, input_fmt, output_fmt, outcome) ==
    LET converter == IF output_fmt = "svg" THEN "convert_wand" ELSE "convert_img"
        png_name == IF self.profile # NoProfile THEN self.profile.handle ELSE Token
        failed == outcome \in {"raise", "raise_name"}
    IN  [result |-> IF outcome = "ok" THEN MkFile(png_name, output_fmt) ELSE NoFile,
         self |-> self,
         raised |-> FALSE,
         log |-> IF failed THEN <<"error">> ELSE <<>>,
         converter |-> converter]

\* -------------------------------------------------- create_from_config
Component(kind, arg) == [kind |-> kind, arg |-> arg]

\* payload.get with a key the config never holds
GetMissing(payload, key) == "None"

\* payload.get(key): the entry's value rendered by the f-string
Get(payload, key) ==
    IF \E i \in 1..Len(payload) : payload[i].key = key
    THEN LET i == CHOOSE j \in 1..Len(payload) : payload[j].key = key
         IN  IF payload[i].kind = "str" THEN payload[i].str ELSE "dict"
    ELSE "None"

\* for k, v in payload.items(): the components appended from entry i on;
\* a value without .get raises and ends the loop.
RECURSIVE Layers(_, _, _)
Layers(payload, i, acc) ==
    IF i > Len(payload) THEN [raised |-> FALSE, components |-> acc]
    ELSE IF payload[i].key \in ColourKeys THEN Layers(payload, i + 1, acc)
    ELSE IF payload[i].kind # "dict" THEN [raised |-> TRUE, components |-> acc]
    ELSE Layers(payload, i + 1,
                Append(acc, Component("layer",
                    payload[i].component_type \o "/" \o payload[i].svg_asset)))

\* CustomAvatar.create_from_config; libs_ok is whether build_avatar_component,
\* Figure and the file writes succeed.
create_from_config(self, libs_ok) ==
    LET payload == self.config
        head == << Component("width", ToString(ICON_WIDTH)),
                   Component("height", ToString(ICON_HEIGHT)),
                   Component("line", "#" \o Get(payload, "Background")) >>
        built == Layers(payload, 1, head)
        profile == self.profile
        svg_name == IF profile # NoProfile /\ profile.handle # ""
                    THEN profile.handle ELSE Token
    IN  IF built.raised \/ ~libs_ok
        THEN [self |-> self, figure |-> <<>>, raised |-> TRUE]
        ELSE [self |-> [self EXCEPT !.svg = MkFile(svg_name, "svg")],
              figure |-> built.components,
              raised |-> FALSE]

\* ------------------------------------------------- CustomAvatar.create
\* The external outcome of one create call: the step that fails (at most
\* one, since a failure ends the work) and the hash dhash returns.
Faults == {"none", "assembly", "conversion", "conversion_none", "naming",
           "hashing", "lookup"}
Env(fault, hash) == [fault |-> fault, hash |-> hash]
Envs == { Env(f, h) : f \in {"none", "lookup"}, h \in Hashes }
        \cup { Env(f, NoHash) : f \in Faults \ {"none", "lookup"} }
NoEnv == Env("none", NoHash)

ConvOutcomeOf(env) ==
    CASE env.fault = "conversion" -> "raise"
      [] env.fault = "conversion_none" -> "none"
      [] env.fault = "naming" -> "raise_name"
      [] OTHER -> "ok"

\* What a handler leaves behind: the returned object, the object it worked
\* on, the assembled figure, whether an exception left it, the log lines
\* and the table.
Outcome(ret, self, figure, raised, log, st) ==
    [ret |-> ret, self |-> self, figure |-> figure, raised |-> raised,
     log |-> log, store |-> st]

\* the try block of create: conversion, hashing, lookup
CreateTry(avatar, figure, st, env) ==
    LET conv == convert_field(avatar, avatar.svg, "svg", "png", ConvOutcomeOf(env))
        a1 == [conv.self EXCEPT !.png = conv.result]
        warned == conv.log \o <<"warning">>
    IN  IF conv.raised THEN Outcome(NoAvatar, a1, figure, TRUE, conv.log, st)
        \* avatar.png.read() of an unset field raises ValueError
        ELSE IF ~FileSet(a1.png) THEN Outcome(a1, a1, figure, FALSE, warned, st)
        ELSE IF env.fault = "hashing" THEN Outcome(a1, a1, figure, FALSE, warned, st)
        ELSE LET a2 == [a1 EXCEPT !.hash = env.hash]
                 similar_avatar == find_similar(a2, st)
             IN  IF env.fault = "lookup"
                 THEN Outcome(a2, a2, figure, FALSE, warned, st)
                 ELSE IF similar_avatar # NoAvatar
                      THEN Outcome(similar_avatar, a2, figure, FALSE, conv.log, st)
                      ELSE Outcome(a2, a2, figure, FALSE, conv.log, st)

\* create with create_from_config inside the try block
create_guarded(profile, config_json, st, env) ==
    LET avatar == [NewAvatar("CustomAvatar", profile) EXCEPT !.config = config_json]
        made == create_from_config(avatar, env.fault # "assembly")
    IN  IF made.raised
        THEN Outcome(made.self, made.self, made.figure, FALSE, <<"warning">>, st)
        ELSE CreateTry(made.self, made.figure, st, env)

\* CustomAvatar.create
create(profile, config_json, st, env) ==
    LET avatar == [NewAvatar("CustomAvatar", profile) EXCEPT !.config = config_json]
        made == create_from_config(avatar, env.fault # "assembly")
    IN  IF made.raised
        THEN Outcome(NoAvatar, made.self, made.figure, TRUE, <<>>, st)
        ELSE CreateTry(made.self, made.figure, st, env)

\* ------------------------------------------------- CustomAvatar.select
select(self, profile, st) ==
    LET new_avatar == MkAvatar("CustomAvatar", 0, profile, self.hash,
                               self.svg, self.png, self.config)
        similar_avatar == find_similar(new_avatar, st)
    IN  Outcome(IF similar_avatar # NoAvatar THEN similar_avatar ELSE new_avatar,
                self, <<>>, FALSE, <<>>, st)

\* --------------------------------------------------------------- state
\* One request: where it is (pc), the method it runs (op), its arguments
\* (profile, source, fmt, outcome, env), the object it works on (self), what it
\* returned (ret, file, url), the figure it assembled, its log lines, the
\* steps it took (trace), the rows it persisted (saves) and the table as it
\* was when the request began (before).
IdleCall ==
    [pc |-> "idle", op |-> "none", profile |-> NoProfile, source |-> NoAvatar,
     self |-> NoAvatar, ret |-> NoAvatar, file |-> NoFile, url |-> "",
     figure |-> <<>>, log |-> <<>>, trace |-> <<>>, saves |-> 0,
     fmt |-> <<"", "">>, outcome |-> "", env |-> NoEnv, before |-> <<>>]

AllIdle == \A p \in Procs : call[p].pc = "idle"

\* a new request is taken by the first free worker
Free(p) ==
    /\ call[p].pc = "idle"
    /\ \A q \in Procs : q < p => call[q].pc # "idle"

Finished(r) == IF r.raised THEN "raised" ELSE "done"

\* a row of the BaseAvatar table, pk = id
Row(id, profile, hash) ==
    MkAvatar("BaseAvatar", id, profile, hash,
             MkFile(IF profile.handle # "" THEN profile.handle ELSE Token, "svg"),
             MkFile(IF profile.handle # "" THEN profile.handle ELSE Token, "png"),
             <<>>)

RowKinds == ProfileArgs \X Hashes

\* every table of at most MaxStore rows
Stores ==
    UNION { { [i \in 1..n |-> Row(i, f[i][1], f[i][2])] : f \in [1..n -> RowKinds] }
            : n \in 0..MaxStore }

\* no two rows share (profile, hash)
Deduplicated(st) ==
    \A i, j \in 1..Len(st) :
        (st[i].profile = st[j].profile /\ st[i].hash = st[j].hash) => i = j

\* in-memory avatars the helper methods are called on
SampleAvatars ==
    { MkAvatar("CustomAvatar", 0, pr, h, svg, png, <<>>) :
        pr \in ProfileArgs, h \in {NoHash, "aa"},
        svg \in {NoFile, MkFile("a", "svg")}, png \in {NoFile, MkFile("a", "png")} }

\* ----------------------------------------------------- helper requests
ConvertFieldCall(p, self, source, input_fmt, output_fmt, outcome) ==
    /\ AllIdle /\ Free(p)
    /\ LET r == convert_field(self, source, input_fmt, output_fmt, outcome)
       IN  call' = [call EXCEPT ![p] =
                [IdleCall EXCEPT !.pc = Finished(r), !.op = "convert_field",
                                 !.source = self, !.self = r.self,
                                 !.file = r.result, !.log = r.log,
                                 !.trace = <<r.converter>>,
                                 !.fmt = <<input_fmt, output_fmt>>,
                                 !.outcome = outcome]]
    /\ UNCHANGED store

AvatarUrlCall(p, self) ==
    /\ AllIdle /\ Free(p)
    /\ LET r == avatar_url(self)
       IN  call' = [call EXCEPT ![p] =
                [IdleCall EXCEPT !.pc = Finished(r), !.op = "avatar_url",
                                 !.source = self, !.self = self,
                                 !.url = r.value]]
    /\ UNCHANGED store

CreateFromConfigCall(p, profile, config, libs_ok) ==
    /\ AllIdle /\ Free(p)
    /\ LET avatar == [NewAvatar("CustomAvatar", profile) EXCEPT !.config = config]
           r == create_from_config(avatar, libs_ok)
       IN  call' = [call EXCEPT ![p] =
                [IdleCall EXCEPT !.pc = Finished(r), !.op = "create_from_config",
                                 !.profile = profile, !.source = avatar,
                                 !.self = r.self, !.figure = r.figure,
                                 !.env = Env(IF libs_ok THEN "none" ELSE "assembly",
                                             NoHash)]]
    /\ UNCHANGED store

\* the request ends: its frame is dropped
Return(p) ==
    /\ call[p].pc \in {"done", "raised"}
    /\ call' = [call EXCEPT ![p] = IdleCall]
    /\ UNCHANGED store

\* ------------------------------------------------- create and select
CreateCall(p, profile, config, env) ==
    /\ AllIdle /\ Free(p)
    /\ LET r == create(profile, config, store, env)
       IN  /\ call' = [call EXCEPT ![p] =
                [IdleCall EXCEPT !.pc = Finished(r), !.op = "create",
                                 !.profile = profile, !.self = r.self,
                                 !.ret = r.ret, !.figure = r.figure,
                                 !.log = r.log, !.env = env,
                                 !.before = store]]
           /\ store' = r.store

\* the avatars select is called on: a stored custom avatar or an unsaved one
SelectSources(st) ==
    { [st[i] EXCEPT !.cls = "CustomAvatar"] : i \in 1..Len(st) }
    \cup { MkAvatar("CustomAvatar", 0, pr, h, MkFile("a", "svg"), MkFile("a", "png"),
                    CfgColours) : pr \in ProfileArgs, h \in Hashes }

SelectCall(p, self, profile) ==
    /\ AllIdle /\ Free(p)
    /\ LET r == select(self, profile, store)
       IN  /\ call' = [call EXCEPT ![p] =
                [IdleCall EXCEPT !.pc = Finished(r), !.op = "select",
                                 !.profile = profile, !.source = self,
                                 !.self = r.self, !.ret = r.ret,
                                 !.before = store]]
           /\ store' = r.store

\* ------------------------------------------ SocialAvatar.github_avatar
\* avatar_hash = calculate_hash(avatar_img); avatar = cls(profile, hash)
GhStart(p, profile, avatar_hash) ==
    /\ Free(p)
    /\ call' = [call EXCEPT ![p] =
            [IdleCall EXCEPT !.pc = "gh_lookup", !.op = "github_avatar",
                             !.profile = profile,
                             !.self = [NewAvatar("SocialAvatar", profile)
                                          EXCEPT !.hash = avatar_hash],
                             !.trace = <<"hash">>,
                             !.before = store]]
    /\ UNCHANGED store

\* similar_avatar = avatar.find_similar(); if similar_avatar: return it
GhLookup(p) ==
    /\ call[p].pc = "gh_lookup"
    /\ LET similar_avatar == find_similar(call[p].self, store)
       IN  call' = [call EXCEPT
                ![p].trace = Append(@, "lookup"),
                ![p].ret = similar_avatar,
                ![p].pc = IF similar_avatar # NoAvatar THEN "done" ELSE "gh_save"]
    /\ UNCHANGED store

\* png.save with save=False: the row is not written
png_save_unsaved(self, st) ==
    [self |-> [self EXCEPT !.png = MkFile(self.profile.handle, "png")],
     store |-> st,
     saves |-> 0]

\* avatar.png.save(f'{profile.handle}.png', ..., save=True)
png_save(self, st) ==
    LET saved == [self EXCEPT !.png = MkFile(self.profile.handle, "png"),
                              !.id = Len(st) + 1]
    IN  [self |-> saved,
         store |-> Append(st, [saved EXCEPT !.cls = "BaseAvatar"]),
         saves |-> 1]

GhSave(p) ==
    /\ call[p].pc = "gh_save"
    /\ IF call[p].profile = NoProfile
       THEN \* None has no attribute handle: AttributeError before any write
            /\ call' = [call EXCEPT ![p].pc = "raised"]
            /\ UNCHANGED store
       ELSE /\ Len(store) < MaxStore
            /\ LET r == png_save(call[p].self, store)
               IN  /\ call' = [call EXCEPT ![p].self = r.self,
                                           ![p].saves = @ + r.saves,
                                           ![p].trace = Append(@, "save"),
                                           ![p].pc = "gh_convert"]
                   /\ store' = r.store

\* avatar.svg = avatar.convert_field(avatar.png, 'png', 'svg'); return avatar
GhConvert(p, outcome) ==
    /\ call[p].pc = "gh_convert"
    /\ LET r == convert_field(call[p].self, call[p].self.png, "png", "svg", outcome)
           avatar == [r.self EXCEPT !.svg = r.result]
       IN  call' = [call EXCEPT
                ![p].self = avatar,
                ![p].ret = IF r.raised THEN NoAvatar ELSE avatar,
                ![p].file = r.result,
                ![p].log = @ \o r.log,
                ![p].outcome = outcome,
                ![p].trace = @ \o <<"convert", "assign">>,
                ![p].pc = Finished(r)]
    /\ UNCHANGED store

\* ------------------------------------------------------ specifications
Idle == call = [p \in Procs |-> IdleCall]

\* the helper methods on their own
InitHelpers == store = <<>> /\ Idle

CallConvertField ==
    \E p \in Procs, self \in SampleAvatars, i \in Formats, o \in Formats,
       outcome \in ConvOutcomes :
        \E source \in {self.svg, self.png} :
            ConvertFieldCall(p, self, source, i, o, outcome)
CallAvatarUrl == \E p \in Procs, self \in SampleAvatars : AvatarUrlCall(p, self)
CallCreateFromConfig ==
    \E p \in Procs, pr \in ProfileArgs, c \in Configs, ok \in BOOLEAN :
        CreateFromConfigCall(p, pr, c, ok)
Returns == \E p \in Procs : Return(p)

NextHelpers ==
    \/ CallConvertField
    \/ CallAvatarUrl
    \/ CallCreateFromConfig
    \/ Returns

SpecHelpers == InitHelpers /\ [][NextHelpers]_vars

\* requests one after the other, over any table
Init == store \in Stores /\ Idle

CallCreate ==
    \E p \in Procs, pr \in ProfileArgs, c \in CreateConfigs, env \in Envs :
        CreateCall(p, pr, c, env)
CallSelect ==
    \E p \in Procs, pr \in ProfileArgs :
        \E self \in SelectSources(store) : SelectCall(p, self, pr)
CallGithubAvatar ==
    \E p \in Procs, pr \in ProfileArgs, h \in Hashes : AllIdle /\ GhStart(p, pr, h)
StepLookup == \E p \in Procs : GhLookup(p)
StepSave == \E p \in Procs : GhSave(p)
StepConvert == \E p \in Procs, outcome \in ConvOutcomes : GhConvert(p, outcome)

Next ==
    \/ CallCreate
    \/ CallSelect
    \/ CallGithubAvatar
    \/ StepLookup
    \/ StepSave
    \/ StepConvert
    \/ Returns

Spec == Init /\ [][Next]_vars

\* github_avatar requests one after the other, from a deduplicated table
InitGithub == store \in {st \in Stores : Deduplicated(st)} /\ Idle

\* the image hashes to a non-empty value
CallGithubAvatarHashed ==
    \E p \in Procs, pr \in ProfileArgs, h \in HashValues : AllIdle /\ GhStart(p, pr, h)

NextGithub ==
    \/ CallGithubAvatarHashed
    \/ StepLookup
    \/ StepSave
    \/ StepConvert
    \/ Returns

SpecGithub == InitGithub /\ [][NextGithub]_vars

\* github_avatar requests whose steps interleave
StartGithubAvatar ==
    \E p \in Procs, pr \in ProfileArgs, h \in Hashes : GhStart(p, pr, h)

NextConcurrent ==
    \/ StartGithubAvatar
    \/ StepLookup
    \/ StepSave
    \/ StepConvert
    \/ Returns

SpecConcurrent == InitGithub /\ [][NextConcurrent]_vars

\* ============================================================== claims
Range(seq) == { seq[i] : i \in 1..Len(seq) }

Calls(op) == { p \in Procs : call[p].op = op }
Done(op) == { p \in Calls(op) : call[p].pc = "done" }
Ended(op) == { p \in Calls(op) : call[p].pc \in {"done", "raised"} }

\* ------------------------------------------------------------------ C1
\* C1: from a table without duplicate (profile, hash) pairs, sequential
\* github_avatar calls with a non-empty hash keep the table free of
\* duplicates: a call whose pair is already stored returns the stored row
\* and persists nothing, a call with a new pair persists exactly one row.
C1_GithubDeduplicates ==
    /\ Deduplicated(store)
    /\ \A p \in Done("github_avatar") :
        LET c == call[p]
            stored == Filter(c.before, c.profile, c.self.hash)
        IN  IF stored # <<>>
            THEN /\ c.ret \in Range(stored)
                 /\ c.saves = 0
                 /\ store = c.before
            ELSE /\ c.saves = 1
                 /\ Len(store) = Len(c.before) + 1
                 /\ SubSeq(store, 1, Len(c.before)) = c.before
                 /\ store[Len(store)].profile = c.profile
                 /\ store[Len(store)].hash = c.self.hash

\* a call found its pair stored, after an earlier call persisted a row
C1_Witness ==
    \E p \in Done("github_avatar") :
        /\ call[p].saves = 0
        /\ call[p].ret \in Range(store)
        /\ Len(store) = 2
        /\ call[p].ret = store[2]

\* ------------------------------------------------------------------ C2
CreateSucceeded(c) == c.op = "create" /\ c.pc = "done" /\ c.env.fault = "none"

NewAvatarComplete(c) ==
    /\ c.ret = c.self
    /\ c.ret.id = 0
    /\ c.ret.profile = c.profile
    /\ c.ret.config \in CreateConfigs
    /\ FileSet(c.ret.svg)
    /\ FileSet(c.ret.png)
    /\ c.ret.hash = c.env.hash

C3_ConvertFieldContained ==
    \A p \in Calls("convert_field") :
        LET c == call[p]
        IN  /\ c.pc # "raised"
            /\ c.outcome \in {"raise", "raise_name"} =>
                    c.file = NoFile /\ c.log = <<"error">>
            /\ c.outcome = "none" => c.file = NoFile
            /\ c.outcome = "ok" => c.log = <<>>
            /\ Fields(c.self) = Fields(c.source)
            /\ c.file # NoFile =>
                    /\ c.file.ext = c.fmt[2]
                    /\ c.file.name \in {c.source.profile.handle, Token}
            /\ c.trace = <<"convert_wand">> <=> c.fmt[2] = "svg"

\* a conversion raised inside convert_field
C3_Witness ==
    \E p \in Calls("convert_field") :
        /\ call[p].outcome = "raise"
        /\ call[p].pc = "done"
        /\ call[p].file = NoFile
        /\ FileSet(call[p].self.png)

\* ------------------------------------------------------------------ C4
\* a non-colour entry whose value is no dict
Malformed(config) ==
    \E i \in 1..Len(config) :
        config[i].key \notin {"Background", "ClothingColor", "HairColor", "SkinTone"}
        /\ config[i].kind # "dict"

AssemblyFails(c) == c.env.fault = "assembly" \/ Malformed(c.self.config)

\* C4 as stated: whatever fails during create, create returns an avatar.
C4_CreateNeverRaises ==
    \A p \in Ended("create") :
        /\ call[p].pc = "done"
        /\ call[p].ret # NoAvatar

\* C4 amended: a failure of the conversion, of hashing or of the lookup is
\* caught, logged as a warning, and create returns the new avatar; a
\* failure in create_from_config is not caught and leaves create.
C4_CreateCatchesConversion ==
    \A p \in Ended("create") :
        LET c == call[p]
        IN  IF AssemblyFails(c)
            THEN c.pc = "raised" /\ c.ret = NoAvatar
            ELSE /\ c.pc = "done"
                 /\ c.ret # NoAvatar
                 /\ c.env.fault # "none" =>
                        /\ c.log # <<>> /\ c.log[Len(c.log)] = "warning"
                        /\ c.ret = c.self

\* the conversion failed and create returned the avatar without a png
C4_Witness ==
    \E p \in Done("create") :
        /\ call[p].env.fault = "conversion"
        /\ call[p].ret.png = NoFile
        /\ FileSet(call[p].ret.svg)

\* ------------------------------------------------------------------ C5
\* C5: avatar_url is the png's URL when png is set, else the svg's URL when
\* svg is set, else the empty string, and it never raises.
C5_AvatarUrl ==
    \A p \in Calls("avatar_url") :
        LET c == call[p]
            a == c.source
        IN  /\ c.pc = "done"
            /\ a.png # NoFile => c.url = "/media/" \o a.png.name \o "." \o a.png.ext
            /\ (a.png = NoFile /\ a.svg # NoFile) =>
                    c.url = "/media/" \o a.svg.name \o "." \o a.svg.ext
            /\ (a.png = NoFile /\ a.svg = NoFile) => c.url = ""

\* both files set: the png wins
C5_Witness ==
    \E p \in Done("avatar_url") :
        /\ call[p].source.png # NoFile
        /\ call[p].source.svg # NoFile
        /\ call[p].url = "/media/a.png"

\* ------------------------------------------------------------------ C6
\* C6: select returns a stored row of the target profile with the source's
\* hash when that hash is not empty and such a row exists, else a new
\* unsaved CustomAvatar of the target profile with the source's config,
\* svg, png and hash; the source and the table are as before.
C6_Select ==
    \A p \in Calls("select") :
        LET c == call[p]
            src == c.source
            stored == Filter(c.before, c.profile, src.hash)
        IN  /\ c.pc = "done"
            /\ IF src.hash # NoHash /\ stored # <<>>
               THEN c.ret \in Range(stored)
               ELSE c.ret = MkAvatar("CustomAvatar", 0, c.profile, src.hash,
                                     src.svg, src.png, src.config)
            /\ c.self = src
            /\ store = c.before

\* the source's hash is empty, a row of the target profile with an empty
\* hash is stored, and select returned a new avatar
C6_Witness ==
    \E p \in Done("select") :
        /\ call[p].source.hash = NoHash
        /\ Filter(store, call[p].profile, NoHash) # <<>>
        /\ call[p].ret.id = 0
        /\ call[p].source.profile # call[p].profile

\* ------------------------------------------------------------------ C7
IsLayerEntry(e) ==
    e.key \notin {"Background", "ClothingColor", "HairColor", "SkinTone"}

BackgroundOf(config) ==
    IF \E i \in 1..Len(config) : config[i].key = "Background"
    THEN (CHOOSE e \in Range(config) : e.key = "Background").str
    ELSE "None"

\* C7: the figure is width, height, one line coloured #<Background>, then
\* one layer per key that is not a colour key, in the config's order, each
\* built from <component_type>/<svg_asset>.
C7_FigureLayout ==
    \A p \in Done("create_from_config") :
        LET c == call[p]
            config == c.source.config
            fig == c.figure
            keys == SelectSeq(config, IsLayerEntry)
        IN  /\ Len(fig) = 3 + Len(keys)
            /\ fig[1] = Component("width", "215")
            /\ fig[2] = Component("height", "215")
            /\ fig[3] = Component("line", "#" \o BackgroundOf(config))
            /\ \A j \in 1..Len(keys) :
                  fig[3 + j] = Component("layer",
                      keys[j].component_type \o "/" \o keys[j].svg_asset)
            /\ Len(fig) - 3 =
                  Cardinality({ i \in 1..Len(config) : IsLayerEntry(config[i]) })

\* a config with colour keys between its three layers
C7_Witness ==
    \E p \in Done("create_from_config") :
        /\ call[p].source.config = CfgFull
        /\ Len(call[p].figure) = 6
        /\ call[p].figure[6].arg = "Eyes/2.svg"

\* ------------------------------------------------------------------ C8
\* C8: when no similar avatar exists github_avatar computes the hash, looks
\* up, saves the png and persists the row, converts, then assigns svg in
\* memory only: the row is persisted once, before the conversion, and keeps
\* its png and hash and no svg whether or not the conversion succeeds; a
\* failed conversion leaves the returned avatar's svg unset.
C8_GithubOrder ==
    \A p \in Calls("github_avatar") :
        LET c == call[p]
            persisted == c.self.id \in 1..Len(store)
                         /\ store[c.self.id].png = c.self.png
                         /\ FileSet(c.self.png)
                         /\ store[c.self.id].hash = c.self.hash
                         /\ store[c.self.id].svg = NoFile
        IN  /\ c.pc = "gh_convert" =>
                /\ c.trace = <<"hash", "lookup", "save">>
                /\ c.saves = 1
                /\ persisted
                /\ c.self.svg = NoFile
            /\ (c.pc = "done" /\ c.ret = c.self) =>
                /\ c.trace = <<"hash", "lookup", "save", "convert", "assign">>
                /\ c.saves = 1
                /\ Len(store) = Len(c.before) + 1
                /\ persisted
                /\ c.outcome # "ok" => c.ret.svg = NoFile
                /\ c.outcome = "ok" => c.ret.svg.ext = "svg"

\* the conversion failed after the row was persisted
C8_Witness ==
    \E p \in Done("github_avatar") :
        /\ call[p].outcome = "raise"
        /\ call[p].saves = 1
        /\ call[p].ret.svg = NoFile
        /\ FileSet(store[call[p].ret.id].png)

\* ------------------------------------------------------------------ C9
\* the avatar whose find_similar the call consulted
LookedUp(c) == IF c.op = "select" THEN c.source ELSE c.self

DedupOps == {"create", "select", "github_avatar"}

\* C9: create, select and github_avatar return an avatar of the profile
\* they were given, whatever other profiles hold, and an avatar with an
\* empty hash is never matched to a stored one.
C9_NoCrossProfile ==
    \A p \in Procs :
        (call[p].op \in DedupOps /\ call[p].pc = "done") =>
            /\ call[p].ret.profile = call[p].profile
            /\ LookedUp(call[p]).hash = NoHash =>
                    call[p].ret \notin Range(call[p].before)

\* another profile holds the hash and the call did not return its row
C9_Witness ==
    \E p \in Procs :
        /\ call[p].op \in DedupOps
        /\ call[p].pc = "done"
        /\ LookedUp(call[p]).hash # NoHash
        /\ \E r \in Range(call[p].before) :
              r.hash = LookedUp(call[p]).hash /\ r.profile # call[p].profile
        /\ call[p].ret.profile = call[p].profile

\* ----------------------------------------------------------------- C10
\* C10: also when github_avatar calls interleave, no two rows share a
\* profile and a non-empty hash.
C10_ConcurrentDedup ==
    \A i, j \in 1..Len(store) :
        (/\ store[i].profile = store[j].profile
         /\ store[i].hash = store[j].hash
         /\ store[i].hash # NoHash) => i = j

====
